---- MODULE Spec2Model ----
(***************************************************************************)
(* A model of the URL shortener of src/app.py: the URL table, the three    *)
(* request handlers shorten_url, redirect_url and get_stats run by         *)
(* concurrent request threads, and the BigQuery click log.  Every access   *)
(* of a handler to the database is one atomic step; what a handler holds   *)
(* between two accesses (the ORM object it loaded, the candidate code) is   *)
(* its frame.                                                              *)
(***************************************************************************)
EXTENDS Integers, Sequences, FiniteSets, TLC

\* ------------------------------------------------------------------ bounds

\* Request threads served at the same time (a finished one is reused).
MaxReq == 2

\* Redirect requests that find their code, in one behaviour.
MaxResolves == 3

\* Length of a generated code (the program's default is 6, src/app.py:100).
CodeLength == 1

\* ------------------------------------------------------------ python values

None == [t |-> "None"]

PyStr(s) == [t |-> "str", v |-> s]

PyInt(n) == [t |-> "int", n |-> n]

\* Python's truth value of a JSON value: None, "" and 0 are false.
Truthy(x) ==
    CASE x.t = "None" -> FALSE
      [] x.t = "str"  -> x.v # ""
      [] x.t = "int"  -> x.n # 0

\* ---------------------------------------------------------------- is_valid_url

Ch(s, i) == SubSeq(s, i, i)

LowerLetters ==
    {"a","b","c","d","e","f","g","h","i","j","k","l","m",
     "n","o","p","q","r","s","t","u","v","w","x","y","z"}

UpperLetters ==
    {"A","B","C","D","E","F","G","H","I","J","K","L","M",
     "N","O","P","Q","R","S","T","U","V","W","X","Y","Z"}

\* [A-Z] under re.IGNORECASE.
Letters == LowerLetters \cup UpperLetters

\* \d
Digits == {"0","1","2","3","4","5","6","7","8","9"}

\* [A-Z0-9] under re.IGNORECASE.
AlNum == Letters \cup Digits

\* The characters \S rejects.
Whitespace == {" ", "\t", "\n", "\r", "\f"}

\* All of s[i..j] lie in the class cls.
AllIn(s, i, j, cls) == \A k \in i..j : Ch(s, k) \in cls

\* The positions after a literal (lo, or its upper-case form up, character by
\* character) read from a position of P.
LitEnds(s, P, lo, up) ==
    { p + Len(lo) : p \in { q \in P :
          /\ q + Len(lo) - 1 <= Len(s)
          /\ \A k \in 1..Len(lo) : Ch(s, q + k - 1) \in {Ch(lo, k), Ch(up, k)} } }

\* ^https?://
SchemeEnds(s) ==
    LET h == LitEnds(s, {1}, "http", "HTTP")
    IN  LitEnds(s, h \cup LitEnds(s, h, "s", "S"), "://", "://")

\* [A-Z0-9](?:[A-Z0-9-]{0,61}[A-Z0-9])?\.  read from p: a label of 1 to 63
\* characters that starts and ends alphanumeric, then a dot.
LabelEnds(s, p) ==
    { e + 2 : e \in { x \in p..(Len(s) - 1) :
          /\ x - p + 1 <= 63
          /\ Ch(s, p) \in AlNum
          /\ Ch(s, x) \in AlNum
          /\ AllIn(s, p + 1, x - 1, AlNum \cup {"-"})
          /\ Ch(s, x + 1) = "." } }

\* (?:label\.)+ : one or more labels; n bounds the number of labels.
RECURSIVE LabelsEnds(_, _, _)
LabelsEnds(s, P, n) ==
    IF n = 0 \/ P = {} THEN {}
    ELSE LET one == UNION { LabelEnds(s, p) : p \in P }
         IN  one \cup LabelsEnds(s, one, n - 1)

\* [A-Z]{2,6}\.?
TldEnds(s, P) ==
    LET tld == { p + k : p \in P, k \in 2..6 } \cap
               { q \in 1..(Len(s) + 1) :
                   \E p \in P : q - p \in 2..6 /\ AllIn(s, p, q - 1, Letters) }
    IN  tld \cup LitEnds(s, tld, ".", ".")

\* \d{1,3}
OctetEnds(s, P) ==
    { q \in 1..(Len(s) + 1) :
        \E p \in P : q - p \in 1..3 /\ AllIn(s, p, q - 1, Digits) }

\* \d{1,3}\.\d{1,3}\.\d{1,3}\.\d{1,3}
IpEnds(s, P) ==
    LET dot(Q) == LitEnds(s, Q, ".", ".")
    IN  OctetEnds(s, dot(OctetEnds(s, dot(OctetEnds(s, dot(OctetEnds(s, P)))))))

\* domain | localhost | ip
HostEnds(s, P) ==
    TldEnds(s, LabelsEnds(s, P, Len(s)))
      \cup LitEnds(s, P, "localhost", "LOCALHOST")
      \cup IpEnds(s, P)

\* (?::\d+)?
PortEnds(s, P) ==
    P \cup { q \in 1..(Len(s) + 1) :
               \E p \in LitEnds(s, P, ":", ":") :
                   q > p /\ AllIn(s, p, q - 1, Digits) }

\* (?:/?|[/?]\S+)
PathEnds(s, P) ==
    P \cup LitEnds(s, P, "/", "/")
      \cup { q \in 1..(Len(s) + 1) :
               \E p \in LitEnds(s, P, "/", "/") \cup LitEnds(s, P, "?", "?") :
                   q > p /\ \A k \in p..(q - 1) : Ch(s, k) \notin Whitespace }

\* $ : the end of the string, or just before a newline that ends it.
AtEnd(s, p) ==
    \/ p = Len(s) + 1
    \/ p = Len(s) /\ Ch(s, p) = "\n"

\* pattern.match(url) is not None, for a str url.
is_valid_url(url) ==
    \E p \in PathEnds(url, PortEnds(url, HostEnds(url, SchemeEnds(url)))) :
        AtEnd(url, p)

\* -------------------------------------------------------------- the inputs

\* The url strings requests carry: the spec's three rejected examples and
\* two accepted ones.
UrlStrings ==
    {"", "not a url", "ftp://example.com",
     "https://example.com/page", "https://a.com"}

\* What request.get_json() returns: None (a JSON null), a list, or a dict
\* whose "url" is absent or null (None), a number or a string.
Bodies ==
    {None, [t |-> "list"]}
      \cup { [t |-> "dict", url |-> v] :
               v \in {None, PyInt(0), PyInt(7)} \cup { PyStr(u) : u \in UrlStrings } }

\* string.ascii_letters + string.digits, cut to two characters.
characters == {"a", "Z"}

\* The strings generate_short_code(length) can return.
RECURSIVE generate_short_code(_)
generate_short_code(length) ==
    IF length = 0 THEN {""}
    ELSE { c \o ch : c \in generate_short_code(length - 1), ch \in characters }

\* The codes a GET /<short_code> or /api/stats/<short_code> asks for.
Codes == generate_short_code(CodeLength)

Req == 1..MaxReq

\* ------------------------------------------------------------------- state

VARIABLES
    store,      \* the url table: its rows, in insertion order
    bq_client,  \* whether the BigQuery client exists (ENVIRONMENT = production)
    sink,       \* the rows the BigQuery table has received
    pc,         \* where each request thread is in its handler
    frame,      \* each handler's local variables
    response,   \* what each finished handler returned
    lookups     \* per code, the redirect requests that found it so far

vars == <<store, bq_client, sink, pc, frame, response, lookups>>

\* A row whose clicks column defaults to 1.
URL_DefaultOne(id, original_url, short_code, created_at) ==
    [id |-> id, original_url |-> original_url, short_code |-> short_code,
     clicks |-> 1, created_at |-> created_at]

\* A row of class URL; the store assigns id and created_at, clicks defaults
\* to 0.
URL(id, original_url, short_code, created_at) ==
    [id |-> id, original_url |-> original_url, short_code |-> short_code,
     clicks |-> 0, created_at |-> created_at]

NoFrame == [op |-> "none", original_url |-> None, short_code |-> "",
            url |-> [id |-> 0, clicks |-> 0]]

NoResponse == [status |-> 0]

Json(status, error) == [status |-> status, error |-> error]

\* ------------------------------------------------------------- the url table

\* The query filtering on the wrong column: it finds no row of a url.
FindByOriginalUrl_WrongColumn(st, u) ==
    { i \in DOMAIN st : st[i].short_code = u }

\* URL.query.filter_by(original_url=u): the rows a .first() may return
\* (no ORDER BY: any of them).
FindByOriginalUrl(st, u) ==
    { i \in DOMAIN st : st[i].original_url = u }

\* The query with its filter dropped: .first() of the whole table.
FindByShortCode_NoFilter(st, c) ==
    DOMAIN st

\* URL.query.filter_by(short_code=c).
FindByShortCode(st, c) ==
    { i \in DOMAIN st : st[i].short_code = c }

\* The column declared without unique=True: every insert commits.
UniqueViolation_NotUnique(st, short_code) ==
    FALSE

\* Whether the INSERT of a row with this short_code commits: the column is
\* unique=True, so it does not when a row holds the code.
UniqueViolation(st, short_code) ==
    \E i \in DOMAIN st : st[i].short_code = short_code

\* An insert that replaces the row of the same original_url when there is
\* one (an upsert keyed on the url).
Insert_Upsert(st, original_url, short_code) ==
    IF \E i \in DOMAIN st : st[i].original_url = original_url
    THEN [ i \in DOMAIN st |->
             IF st[i].original_url = original_url
             THEN [st[i] EXCEPT !.short_code = short_code]
             ELSE st[i] ]
    ELSE Append(st, URL(Len(st) + 1, original_url, short_code, Len(st) + 1))

\* db.session.add(URL(...)); db.session.commit() when the constraint allows
\* it: the row gets the next id.
Insert(st, original_url, short_code) ==
    Append(st, URL(Len(st) + 1, original_url, short_code, Len(st) + 1))

\* The UPDATE counting a click twice.
UpdateClicks_AddsTwo(st, id, loaded) ==
    [ i \in DOMAIN st |->
        IF st[i].id = id THEN [st[i] EXCEPT !.clicks = loaded + 2] ELSE st[i] ]

\* The UPDATE without its WHERE clause: every row gets the value.
UpdateClicks_AllRows(st, id, loaded) ==
    [ i \in DOMAIN st |-> [st[i] EXCEPT !.clicks = loaded + 1] ]

\* The UPDATE with the increment left out.
UpdateClicks_NoIncrement(st, id, loaded) ==
    [ i \in DOMAIN st |->
        IF st[i].id = id THEN [st[i] EXCEPT !.clicks = loaded] ELSE st[i] ]

\* The UPDATE the ORM flushes for url.clicks += 1: it writes the value the
\* handler computed from the clicks it loaded, to the row of that id.
UpdateClicks(st, id, loaded) ==
    [ i \in DOMAIN st |->
        IF st[i].id = id THEN [st[i] EXCEPT !.clicks = loaded + 1] ELSE st[i] ]

\* The redirect requests that found their code so far, over all codes.
RECURSIVE Total(_, _)
Total(f, S) ==
    IF S = {} THEN 0
    ELSE LET c == CHOOSE x \in S : TRUE
         IN  f[c] + Total(f, S \ {c})

\* ------------------------------------------------------------------- Init

Init ==
    /\ store = << >>
    /\ bq_client \in BOOLEAN
    /\ sink = << >>
    /\ pc = [r \in Req |-> "idle"]
    /\ frame = [r \in Req |-> NoFrame]
    /\ response = [r \in Req |-> NoResponse]
    /\ lookups = [c \in Codes |-> 0]

\* The handler of r returns resp.
Return(r, resp) ==
    /\ pc' = [pc EXCEPT ![r] = "done"]
    /\ response' = [response EXCEPT ![r] = resp]

Goto(r, label) ==
    /\ pc' = [pc EXCEPT ![r] = label]
    /\ UNCHANGED response

\* ---------------------------------------------------------------- shorten_url

\* The handler ignoring what is_valid_url returns at line 150.
Validate_NoPattern(data) ==
    IF data.t # "dict" THEN "AttributeError"
    ELSE IF ~Truthy(data.url) THEN "required"
    ELSE IF data.url.t # "str" THEN "TypeError"
    ELSE "ok"

\* What lines 144-151 decide for a body, before any query: "AttributeError"
\* (data has no .get), "required", "TypeError" (pattern.match of a non-str),
\* "invalid", or "ok".
Validate(data) ==
    IF data.t # "dict" THEN "AttributeError"
    ELSE IF ~Truthy(data.url) THEN "required"
    ELSE IF data.url.t # "str" THEN "TypeError"
    ELSE IF ~is_valid_url(data.url.v) THEN "invalid"
    ELSE "ok"

\* POST /api/shorten arrives with body data; lines 144-151.
shorten_validate(r, data) ==
    /\ pc[r] = "idle"
    /\ frame' = [frame EXCEPT ![r] =
           [NoFrame EXCEPT !.op = "shorten",
                           !.original_url =
                               IF data.t = "dict" THEN data.url ELSE None]]
    /\ LET v == Validate(data)
       IN  CASE v = "ok"       -> Goto(r, "s_lookup")
             [] v = "required" -> Return(r, Json(400, "URL is required"))
             [] v = "invalid"  -> Return(r, Json(400, "Invalid URL format"))
             [] OTHER          -> Return(r, Json(500, v))
    /\ UNCHANGED <<store, bq_client, sink, lookups>>

\* Lines 153-159: the query for an existing row of this url.
shorten_lookup(r) ==
    /\ pc[r] = "s_lookup"
    /\ LET found == FindByOriginalUrl(store, frame[r].original_url.v)
       IN  IF found = {}
           THEN Goto(r, "s_generate")
           ELSE \E i \in found :
                    Return(r, [status |-> 200,
                               short_code |-> store[i].short_code])
    /\ UNCHANGED <<store, bq_client, sink, frame, lookups>>

\* Lines 161-165: one turn of the loop, a candidate and the query whether a
\* row holds it.
shorten_generate(r) ==
    /\ pc[r] = "s_generate"
    /\ \E c \in generate_short_code(CodeLength) :
         /\ frame' = [frame EXCEPT ![r].short_code = c]
         /\ IF FindByShortCode(store, c) # {}
            THEN Goto(r, "s_generate")
            ELSE Goto(r, "s_commit")
    /\ UNCHANGED <<store, bq_client, sink, lookups>>

\* Lines 167-174: the insert and its commit; a unique violation raises
\* IntegrityError out of the handler (a 500).
shorten_commit(r) ==
    /\ pc[r] = "s_commit"
    /\ IF UniqueViolation(store, frame[r].short_code)
       THEN /\ Return(r, Json(500, "IntegrityError"))
            /\ UNCHANGED store
       ELSE /\ store' = Insert(store, frame[r].original_url.v,
                               frame[r].short_code)
            /\ Return(r, [status |-> 200, short_code |-> frame[r].short_code])
    /\ UNCHANGED <<bq_client, sink, frame, lookups>>

\* --------------------------------------------------------------- redirect_url

\* GET /<short_code> arrives; lines 179-181.  A found row is loaded into
\* the handler's ORM object url.
redirect_lookup(r, short_code) ==
    /\ pc[r] = "idle"
    /\ LET found == FindByShortCode(store, short_code)
       IN  IF found = {}
           THEN /\ Return(r, Json(404, "URL not found"))
                /\ frame' = [frame EXCEPT ![r] =
                       [NoFrame EXCEPT !.op = "redirect",
                                       !.short_code = short_code]]
                /\ UNCHANGED lookups
           ELSE /\ Total(lookups, Codes) < MaxResolves
                /\ \E i \in found :
                     frame' = [frame EXCEPT ![r] =
                         [NoFrame EXCEPT !.op = "redirect",
                                         !.short_code = short_code,
                                         !.url = [id |-> store[i].id,
                                                  clicks |-> store[i].clicks]]]
                /\ lookups' = [lookups EXCEPT ![short_code] = @ + 1]
                /\ Goto(r, "r_commit")
    /\ UNCHANGED <<store, bq_client, sink>>

\* Lines 183-185: url.clicks += 1 on the loaded object, and the commit, which
\* expires the object's loaded attributes (the frame keeps the row's id).
redirect_commit(r) ==
    /\ pc[r] = "r_commit"
    /\ store' = UpdateClicks(store, frame[r].url.id, frame[r].url.clicks)
    /\ frame' = [frame EXCEPT ![r].url.clicks = 0]
    /\ Goto(r, "r_log")
    /\ UNCHANGED <<bq_client, sink, lookups>>

\* log_click_event, lines 116-134: "return" without a client; with one,
\* building rows_to_insert evaluates datetime.UTC on the class datetime
\* (line 10 imports the class, which has no UTC), an AttributeError raised
\* before the try of line 129 is entered, so insert_rows_json is never called.
log_click_event(client) ==
    IF ~client THEN "return" ELSE "AttributeError"

\* The sink when every call with a client sends its event, and sends it
\* again.
SinkAfterLog_Resend(snk, client, short_code) ==
    IF client
    THEN snk \o << [short_code |-> short_code], [short_code |-> short_code] >>
    ELSE snk

\* The sink after one call of log_click_event: lines 129-134 call
\* insert_rows_json once, with one row, and only print what fails; the call
\* is reached only if building the row did not raise.
SinkAfterLog(snk, client, short_code) ==
    IF log_click_event(client) = "sent"
    THEN Append(snk, [short_code |-> short_code])
    ELSE snk

\* Lines 187-194: the click log, then the redirect to the row's
\* original_url (reloaded: the commit expired the object).
redirect_log(r) ==
    /\ pc[r] = "r_log"
    /\ sink' = SinkAfterLog(sink, bq_client, frame[r].short_code)
    /\ IF log_click_event(bq_client) \in {"return", "sent"}
       THEN \E i \in { j \in DOMAIN store : store[j].id = frame[r].url.id } :
                Return(r, [status |-> 302,
                           location |-> store[i].original_url])
       ELSE Return(r, Json(500, log_click_event(bq_client)))
    /\ UNCHANGED <<store, bq_client, frame, lookups>>

\* ------------------------------------------------------------------ get_stats

\* GET /api/stats/<short_code>; lines 199-208.
get_stats(r, short_code) ==
    /\ pc[r] = "idle"
    /\ frame' = [frame EXCEPT ![r] =
           [NoFrame EXCEPT !.op = "stats", !.short_code = short_code]]
    /\ LET found == FindByShortCode(store, short_code)
       IN  IF found = {}
           THEN Return(r, Json(404, "URL not found"))
           ELSE \E i \in found :
                    Return(r, [status |-> 200,
                               short_code |-> store[i].short_code,
                               original_url |-> store[i].original_url,
                               clicks |-> store[i].clicks,
                               created_at |-> store[i].created_at])
    /\ UNCHANGED <<store, bq_client, sink, lookups>>

\* The response is sent and the thread takes the next request.
next_request(r) ==
    /\ pc[r] = "done"
    /\ pc' = [pc EXCEPT ![r] = "idle"]
    /\ frame' = [frame EXCEPT ![r] = NoFrame]
    /\ response' = [response EXCEPT ![r] = NoResponse]
    /\ UNCHANGED <<store, bq_client, sink, lookups>>

\* ------------------------------------------------------------ specifications

Next ==
    \/ \E r \in Req, data \in Bodies : shorten_validate(r, data)
    \/ \E r \in Req : shorten_lookup(r)
    \/ \E r \in Req : shorten_generate(r)
    \/ \E r \in Req : shorten_commit(r)
    \/ \E r \in Req, c \in Codes : redirect_lookup(r, c)
    \/ \E r \in Req : redirect_commit(r)
    \/ \E r \in Req : redirect_log(r)
    \/ \E r \in Req, c \in Codes : get_stats(r, c)
    \/ \E r \in Req : next_request(r)

\* Concurrent request threads, interleaved at their database accesses.
Spec == Init /\ [][Next]_vars

\* One request at a time: a handler runs from its first line to its return
\* before the next request is taken up.
Solo(r) == \A q \in Req \ {r} : pc[q] \in {"idle", "done"}

NextSeq ==
    \/ \E r \in Req, data \in Bodies : Solo(r) /\ shorten_validate(r, data)
    \/ \E r \in Req : Solo(r) /\ shorten_lookup(r)
    \/ \E r \in Req : Solo(r) /\ shorten_generate(r)
    \/ \E r \in Req : Solo(r) /\ shorten_commit(r)
    \/ \E r \in Req, c \in Codes : Solo(r) /\ redirect_lookup(r, c)
    \/ \E r \in Req : Solo(r) /\ redirect_commit(r)
    \/ \E r \in Req : Solo(r) /\ redirect_log(r)
    \/ \E r \in Req, c \in Codes : Solo(r) /\ get_stats(r, c)
    \/ \E r \in Req : Solo(r) /\ next_request(r)

\* Requests served one after the other.
SpecSeq == Init /\ [][NextSeq]_vars

\* Only shorten requests arrive.
NextShorten ==
    \/ \E r \in Req, data \in Bodies : shorten_validate(r, data)
    \/ \E r \in Req : shorten_lookup(r)
    \/ \E r \in Req : shorten_generate(r)
    \/ \E r \in Req : shorten_commit(r)
    \/ \E r \in Req : next_request(r)

\* A request thread that can take its next step takes it (the server runs
\* every handler to its return), and random.choice does not avoid a free
\* code for ever: a turn of the loop that passes the pre-check is taken if
\* it is possible again and again.
ShortenFairness ==
    \A r \in Req :
        /\ WF_vars(shorten_lookup(r))
        /\ WF_vars(shorten_generate(r))
        /\ SF_vars(shorten_generate(r) /\ pc'[r] = "s_commit")
        /\ WF_vars(shorten_commit(r))

\* Shorten requests under a fair scheduler and a fair generator.
SpecShortenFair == Init /\ [][NextShorten]_vars /\ ShortenFairness

\* ------------------------------------------------------------------ claims

\* The rows of the table that hold code c, and those that hold url u.
RowsOfCode(c) == { i \in DOMAIN store : store[i].short_code = c }

RowsOfUrl(u) == { i \in DOMAIN store : store[i].original_url = u }

\* Request r has returned from shorten_url with a 200.
ShortenReturned(r) ==
    pc[r] = "done" /\ frame[r].op = "shorten" /\ response[r].status = 200

\* Request r has returned from shorten_url after its candidate code passed
\* the pre-check (it attempted the insert).
InsertAttempted(r) ==
    pc[r] = "done" /\ frame[r].op = "shorten" /\ frame[r].short_code # ""

\* C1: no two rows of the table share a short_code, in any interleaving; and
\* of the requests that attempted to insert the same code (each passed the
\* pre-check before any of them committed) at most one got its 200, the
\* table holding exactly one row of that code.
C1_UniqueShortCode ==
    /\ \A i, j \in DOMAIN store :
         i # j => store[i].short_code # store[j].short_code
    /\ \A r1, r2 \in Req :
         (r1 # r2 /\ InsertAttempted(r1) /\ InsertAttempted(r2)
            /\ frame[r1].short_code = frame[r2].short_code)
         => /\ Cardinality(RowsOfCode(frame[r1].short_code)) = 1
            /\ ~(response[r1].status = 200 /\ response[r2].status = 200)

\* Two requests raced on one code: one inserted it, the other got the
\* IntegrityError.
C1_Witness ==
    \E r1, r2 \in Req :
        /\ r1 # r2 /\ InsertAttempted(r1) /\ InsertAttempted(r2)
        /\ frame[r1].short_code = frame[r2].short_code
        /\ response[r1].status = 200
        /\ response[r2] = Json(500, "IntegrityError")

\* C2: once every redirect request that found code c has committed, the
\* clicks of c's row is the number of those requests (the row was inserted
\* with 0 clicks): no update is lost.
C2_NoLostUpdates ==
    \A c \in Codes :
        (\A r \in Req : ~(pc[r] = "r_commit" /\ frame[r].short_code = c))
        => \A i \in RowsOfCode(c) : store[i].clicks = lookups[c]

\* C3: served one after the other, a shorten request for a url that an
\* earlier request was answered for returns the same short_code, leaves the
\* table as it is, generates no code, and the table holds one row of the url.
C3_SecondShortenReuses ==
    [][ \A r1, r2 \in Req :
          (/\ r1 # r2
           /\ ShortenReturned(r1)
           /\ pc[r2] # "done" /\ pc'[r2] = "done"
           /\ frame'[r2].op = "shorten"
           /\ frame'[r2].original_url = frame[r1].original_url)
          => /\ response'[r2].status = 200
             /\ response'[r2].short_code = response[r1].short_code
             /\ store' = store
             /\ frame'[r2].short_code = ""
             /\ Cardinality(RowsOfUrl(frame[r1].original_url.v)) = 1 ]_vars

\* The first request allocated a code, the second was answered from the
\* table.
C3_Witness ==
    \E r1, r2 \in Req :
        /\ r1 # r2 /\ ShortenReturned(r1) /\ ShortenReturned(r2)
        /\ frame[r1].original_url = frame[r2].original_url
        /\ frame[r1].short_code # ""
        /\ frame[r2].short_code = ""
        /\ response[r1].short_code = response[r2].short_code

\* C4: the table holds at most one row per original_url, in any
\* interleaving of shorten requests.
C4_OneMappingPerUrl ==
    \A i, j \in DOMAIN store :
        i # j => store[i].original_url # store[j].original_url

\* C5: a shorten request whose insert collides on short_code retries and
\* ends with a 200: the IntegrityError never reaches the caller.
C5_ConflictRetried ==
    \A r \in Req :
        InsertAttempted(r) => response[r].status = 200

\* C6: once shorten(u) has returned code c, a redirect request for c finds
\* the row and returns the redirect to exactly u.
C6_RoundTrip ==
    [][ \A r1, r2 \in Req :
          (/\ ShortenReturned(r1)
           /\ pc[r2] # "done" /\ pc'[r2] = "done"
           /\ frame'[r2].op = "redirect"
           /\ frame'[r2].short_code = response[r1].short_code)
          => response'[r2] = [status |-> 302,
                              location |-> frame[r1].original_url.v] ]_vars

\* C7: a redirect request for a code that no row holds returns the 404 and
\* changes neither the table nor the click log.
C7_NotFoundLeavesStore ==
    [][ \A r \in Req :
          (/\ pc[r] = "idle" /\ pc'[r] # "idle"
           /\ frame'[r].op = "redirect"
           /\ RowsOfCode(frame'[r].short_code) = {})
          => /\ pc'[r] = "done"
             /\ response'[r] = Json(404, "URL not found")
             /\ store' = store
             /\ sink' = sink ]_vars

\* A redirect request got its 404 from a table that holds rows with clicks.
C7_Witness ==
    \E r \in Req :
        /\ pc[r] = "done" /\ frame[r].op = "redirect"
        /\ response[r].status = 404
        /\ RowsOfCode(frame[r].short_code) = {}
        /\ \E i \in DOMAIN store : store[i].clicks > 0

\* The url strings the spec names as rejected.
RejectedUrls == {"", "not a url", "ftp://example.com"}

\* C8: a shorten request whose url is empty or fails the url pattern returns
\* the 400 in its first step, which is before any query (the request never
\* reaches s_lookup), and the table is unchanged.
C8_InvalidUrlRejected ==
    [][ \A r \in Req :
          (/\ pc[r] = "idle" /\ pc'[r] # "idle"
           /\ frame'[r].op = "shorten"
           /\ frame'[r].original_url.t = "str"
           /\ \/ frame'[r].original_url.v \in RejectedUrls
              \/ ~is_valid_url(frame'[r].original_url.v))
          => /\ pc'[r] = "done"
             /\ response'[r].status = 400
             /\ store' = store ]_vars

\* The ftp url was rejected while the table held a row.
C8_Witness ==
    \E r \in Req :
        /\ pc[r] = "done" /\ frame[r].op = "shorten"
        /\ frame[r].original_url = PyStr("ftp://example.com")
        /\ response[r] = Json(400, "Invalid URL format")
        /\ store # << >>

\* C9: a redirect request that found its row returns the redirect whether
\* the click log is disabled, succeeds or fails: no error of log_click_event
\* comes out of redirect_url.
C9_SinkNeverFailsResolve ==
    \A r \in Req :
        (pc[r] = "done" /\ frame[r].op = "redirect" /\ frame[r].url.id # 0)
        => response[r].status = 302

\* C10: a row starts with 0 clicks, and no step lowers the clicks of a row.
C10_ClicksMonotone ==
    [][ /\ \A i \in DOMAIN store :
             i \in DOMAIN store' /\ store'[i].clicks >= store[i].clicks
        /\ \A i \in DOMAIN store' \ DOMAIN store :
             store'[i].clicks = 0 ]_vars

\* C11: a shorten request of a valid url that no row holds terminates: once
\* in the loop of candidates it returns, with a code or, when every
\* candidate is taken, with the error of an exhausted code space after a
\* bounded number of turns.
C11_ShortenTerminates ==
    \A r \in Req : (pc[r] = "s_generate") ~> (pc[r] = "done")

\* C12: two shorten requests that returned a 200 for different urls hold
\* different short codes, in any interleaving and whichever candidates the
\* generator gave them.
C12_DistinctUrlsDistinctCodes ==
    \A r1, r2 \in Req :
        (/\ ShortenReturned(r1) /\ ShortenReturned(r2)
         /\ frame[r1].original_url # frame[r2].original_url)
        => response[r1].short_code # response[r2].short_code

\* Two requests for different urls both inserted a row and returned.
C12_Witness ==
    \E r1, r2 \in Req :
        /\ ShortenReturned(r1) /\ ShortenReturned(r2)
        /\ frame[r1].original_url # frame[r2].original_url
        /\ frame[r1].short_code # "" /\ frame[r2].short_code # ""
        /\ Len(store) = 2

\* C13: with requests served one after another, a stats request for a code
\* that has a row returns 200 with that row's short_code, original_url and
\* created_at and with clicks equal to the number of redirect requests that
\* found the code so far (each has committed its click); a stats request
\* leaves the table as it was.
C13_StatsReportsClicks ==
    [][ \A r \in Req :
          (pc[r] = "idle" /\ pc'[r] = "done" /\ frame'[r].op = "stats")
          => LET c == frame'[r].short_code
             IN  /\ store' = store
                 /\ RowsOfCode(c) # {} =>
                        \E i \in RowsOfCode(c) :
                            response'[r] =
                                [status |-> 200,
                                 short_code |-> c,
                                 original_url |-> store[i].original_url,
                                 clicks |-> lookups[c],
                                 created_at |-> store[i].created_at]
                 /\ RowsOfCode(c) = {} => response'[r].status = 404 ]_vars

\* A stats request reported as many clicks as the bound on redirects allows.
C13_Witness ==
    \E r \in Req :
        /\ pc[r] = "done" /\ frame[r].op = "stats"
        /\ response[r].status = 200
        /\ response[r].clicks = MaxResolves
        /\ lookups[response[r].short_code] = MaxResolves

\* C14: no step of any request removes a row or changes a row's id,
\* original_url, short_code or created_at: every row of the table is still
\* there after the step, at its place, equal to itself but for clicks.
C14_MappingsImmutable ==
    [][ \A i \in DOMAIN store :
          /\ i \in DOMAIN store'
          /\ [store'[i] EXCEPT !.clicks = 0] = [store[i] EXCEPT !.clicks = 0]
      ]_vars

\* Two rows, the older one clicked, after shorten, redirect and stats
\* requests have all been served.
C14_Witness ==
    /\ Len(store) = 2
    /\ store[1].clicks > 0
    /\ \E r1, r2 \in Req :
          /\ pc[r1] = "done" /\ frame[r1].op = "stats"
          /\ response[r1].status = 200
          /\ ShortenReturned(r2) /\ frame[r2].short_code = store[2].short_code

\* C15: a step of a shorten request that returns a 200 either found a row of
\* the url and leaves the table exactly as it was, or appends exactly one
\* row, holding the requested original_url, the returned short_code and
\* clicks = 0, and leaves every earlier row as it was; every other step of a
\* shorten request leaves the table as it was.
C15_ShortenStoreEffect ==
    [][ \A r \in Req :
          (/\ pc'[r] # pc[r] \/ frame'[r] # frame[r]
           /\ frame'[r].op = "shorten")
          => IF pc'[r] = "done" /\ response'[r].status = 200
             THEN \/ /\ frame'[r].short_code = ""
                     /\ store' = store
                  \/ /\ frame'[r].short_code # ""
                     /\ Len(store') = Len(store) + 1
                     /\ SubSeq(store', 1, Len(store)) = store
                     /\ LET new == store'[Len(store')]
                        IN  /\ new.original_url = frame'[r].original_url.v
                            /\ new.short_code = response'[r].short_code
                            /\ new.clicks = 0
             ELSE store' = store ]_vars

\* One request returned the code of a row it found, another the code of the
\* row it inserted behind a row that was already there.
C15_Witness ==
    \E r1, r2 \in Req :
        /\ ShortenReturned(r1) /\ frame[r1].short_code = ""
        /\ ShortenReturned(r2) /\ frame[r2].short_code # ""
        /\ Len(store) = 2
        /\ store[2].short_code = response[r2].short_code

\* The events of code c in the sink.
EventsOf(c) ==
    Cardinality({ k \in DOMAIN sink : sink[k].short_code = c })

\* The redirect requests that found code c and have committed their click.
Committed(c) ==
    lookups[c]
    - Cardinality({ r \in Req : pc[r] = "r_commit" /\ frame[r].short_code = c })

\* C16: the sink grows only in the one step a redirect request takes after
\* its commit (the call of log_click_event), by at most one event, which
\* carries the request's code; nothing sends an event a second time; and
\* the events of a code are never more than the redirect requests that
\* found the code and committed their click.
C16_AtMostOneEvent ==
    /\ [](\A c \in Codes : EventsOf(c) <= Committed(c))
    /\ [][ sink' # sink =>
             \E r \in Req :
                 /\ pc[r] = "r_log" /\ pc'[r] = "done"
                 /\ sink' = Append(sink, [short_code |-> frame[r].short_code])
         ]_vars

\* With a sink configured, a redirect request found its code, committed the
\* click and has made its call of log_click_event.
C16_Witness ==
    /\ bq_client
    /\ \E r \in Req :
          /\ pc[r] = "done" /\ frame[r].op = "redirect"
          /\ response[r].status # 404
          /\ Committed(frame[r].short_code) >= 1
          /\ EventsOf(frame[r].short_code) <= 1

\* C17: a shorten request ends as a 200 or as a 400; a request whose body is
\* not an object, or whose url is absent, empty or not a string, ends as a
\* 400 (and, never having reached a query, inserts nothing).
C17_ShortenOutcomes ==
    \A r \in Req :
        (pc[r] = "done" /\ frame[r].op = "shorten")
        => response[r].status \in {200, 400}

\* C18: a step of a redirect request for code c leaves the table with the
\* same rows, changes no row of another code, and changes nothing but
\* clicks in a row of c, in any interleaving.
C18_ResolveTouchesOnlyItsRow ==
    [][ \A r \in Req :
          (/\ pc'[r] # pc[r] \/ frame'[r] # frame[r]
           /\ frame'[r].op = "redirect")
          => /\ DOMAIN store' = DOMAIN store
             /\ \A i \in DOMAIN store :
                   /\ store[i].short_code # frame'[r].short_code
                        => store'[i] = store[i]
                   /\ [store'[i] EXCEPT !.clicks = 0]
                        = [store[i] EXCEPT !.clicks = 0] ]_vars

\* Two redirect requests for different codes are in flight together, both
\* past their commit, and each row holds its own click.
C18_Witness ==
    \E r1, r2 \in Req :
        /\ pc[r1] = "r_log" /\ pc[r2] = "r_log"
        /\ frame[r1].short_code # frame[r2].short_code
        /\ \A i \in DOMAIN store : store[i].clicks = 1
        /\ Len(store) = 2

\* C19: in every reachable state the clicks of a row is at most the number
\* of redirect requests that found the row's code so far, and at least 1
\* once one of them has committed its click.
C19_NoOverCounting ==
    \A i \in DOMAIN store :
        /\ store[i].clicks <= lookups[store[i].short_code]
        /\ Committed(store[i].short_code) >= 1 => store[i].clicks >= 1

\* Concurrent redirects of one code lost a click: fewer clicks than
\* requests that committed, and still at least one.
C19_Witness ==
    \E i \in DOMAIN store :
        /\ Committed(store[i].short_code) = MaxResolves
        /\ store[i].clicks >= 1
        /\ store[i].clicks < MaxResolves

====
